---- MODULE Spec2Model ----
(***************************************************************************)
(* Chunked-upload transfer engine of the BLE GATT file server              *)
(* (src/server/gatt_server.py): the control characteristic (BEGIN, END,    *)
(* ABORT), the data characteristic, the shared transfer_state and the      *)
(* upload directory they act on; and the ASCII-command server              *)
(* (src/bluetooth_server.py): its data, name and control characteristics,  *)
(* the globals file_buffer and file_name and the control status value.     *)
(*                                                                         *)
(* Text is a sequence of one-character strings, a payload a sequence of    *)
(* byte values, a file system a function from normalised paths (sequences  *)
(* of segments) to contents (sequences of byte values).  Python's None is  *)
(* the empty sequence; an optional object is a sequence of length <= 1.    *)
(***************************************************************************)
EXTENDS Integers, Sequences, FiniteSets, TLC

VARIABLES
    transfer_state,   \* FileTransferService.transfer_state
    fs,               \* regular files on disk: normalised path -> contents
    last,             \* history: the last write event and what its caller saw
    sent,             \* history: Data payloads accepted since the last BEGIN
                      \* (ASCII server: since the buffer was last emptied)
    clean,            \* history: no storage call failed since the last BEGIN
    raw,              \* history: decoded file name text of the last BEGIN
    uploads,          \* history: number of transfers END has published
    faults,           \* history: number of storage calls that have failed
    written,          \* history: number of bytes Data writes have appended
    file_buffer,      \* bluetooth_server.py: global file_buffer
    file_name,        \* bluetooth_server.py: global file_name
    control_value,    \* bluetooth_server.py: FileControlCharacteristic.value
    event             \* history: the last write to the ASCII server and
                      \* what its caller saw

vars == <<transfer_state, fs, last, sent, clean, raw, uploads, faults, written,
          file_buffer, file_name, control_value, event>>

\* the variables only the transfer engine changes, and those only the
\* ASCII-command server changes
engine == <<transfer_state, last, clean, raw>>
ascii == <<file_buffer, file_name, control_value, event>>

-----------------------------------------------------------------------------
(* Bounds of the model *)

\* END publishes at most this many transfers in one behaviour
MaxUploads == 2
\* Data writes append at most this many bytes in one behaviour
MaxBytes == 2
\* at most this many storage calls fail in one behaviour
MaxFaults == 1
\* saved transfers, appended bytes and failed storage calls of one behaviour
\* number at most this many together
MaxCost == 4

-----------------------------------------------------------------------------
(* Program constants *)

CMD_BEGIN == 1
CMD_END == 2
CMD_ABORT == 3

None == <<>>

\* 'unnamed_upload'
UNNAMED_UPLOAD ==
    <<"u","n","n","a","m","e","d","_","u","p","l","o","a","d">>

\* prefix='.upload_'
TEMP_PREFIX == <<".","u","p","l","o","a","d","_">>

\* args.upload_dir, an absolute path
upload_dir == <<"/","s">>

Whitespace == {" "}

-----------------------------------------------------------------------------
(* Text and path functions of the Python library, as the engine uses them *)

\* bytes.decode('utf-8', errors='replace') on the bytes the model sends:
\* ASCII bytes decode to their character, a byte that starts no valid
\* sequence decodes to U+FFFD.
DecodeByte(b) ==
    CASE b = 32 -> " "
      [] b = 46 -> "."
      [] b = 47 -> "/"
      [] b = 95 -> "_"
      [] b = 97 -> "a"
      [] b = 100 -> "d"
      [] b = 108 -> "l"
      [] b = 111 -> "o"
      [] b = 112 -> "p"
      [] b = 114 -> "r"
      [] b = 116 -> "t"
      [] b = 117 -> "u"
      [] OTHER -> "U+FFFD"

Decode(bytes) == [i \in 1..Len(bytes) |-> DecodeByte(bytes[i])]

\* str.rfind(c) + 1 over s[:i]: the 1-based index of the last c, 0 when absent
RECURSIVE RFindFrom(_, _, _)
RFindFrom(s, c, i) ==
    IF i = 0 THEN 0 ELSE IF s[i] = c THEN i ELSE RFindFrom(s, c, i - 1)

RFind(s, c) == RFindFrom(s, c, Len(s))

\* str.find(c) + 1 over s[i-1:]
RECURSIVE FindFrom(_, _, _)
FindFrom(s, c, i) ==
    IF i > Len(s) THEN 0 ELSE IF s[i] = c THEN i ELSE FindFrom(s, c, i + 1)

Find(s, c) == FindFrom(s, c, 1)

\* os.path.basename: what follows the last separator
basename(p) == SubSeq(p, RFind(p, "/") + 1, Len(p))

\* str.lstrip() and str.rstrip()
RECURSIVE lstrip(_)
lstrip(s) ==
    IF s # <<>> /\ Head(s) \in Whitespace THEN lstrip(Tail(s)) ELSE s

RECURSIVE rstrip(_)
rstrip(s) ==
    IF s # <<>> /\ s[Len(s)] \in Whitespace
    THEN rstrip(SubSeq(s, 1, Len(s) - 1)) ELSE s

\* str.strip(): leading and trailing whitespace removed
strip(s) == rstrip(lstrip(s))

\* os.path.join(a, b) of two components
join(a, b) ==
    IF b # <<>> /\ b[1] = "/" THEN b
    ELSE IF a = <<>> \/ a[Len(a)] = "/" THEN a \o b
    ELSE a \o <<"/">> \o b

\* os.path.splitext: the extension starts at the last dot of the last
\* segment, unless only dots precede it in that segment
splitext(p) ==
    LET sepIndex == RFind(p, "/")
        dotIndex == RFind(p, ".")
        lead == {i \in (sepIndex + 1)..(dotIndex - 1) : p[i] # "."}
    IN  IF dotIndex > sepIndex /\ lead # {}
        THEN <<SubSeq(p, 1, dotIndex - 1), SubSeq(p, dotIndex, Len(p))>>
        ELSE <<p, <<>>>>

Digit(d) == <<"0","1","2","3","4","5","6","7","8","9">>[d + 1]

\* '{}'.format(n) of a non-negative integer
RECURSIVE IntToStr(_)
IntToStr(n) ==
    IF n < 10 THEN <<Digit(n)>> ELSE IntToStr(n \div 10) \o <<Digit(n % 10)>>

\* the segments of a path between its separators
RECURSIVE Segments(_)
Segments(p) ==
    IF p = <<>> THEN <<>>
    ELSE LET i == Find(p, "/")
         IN  IF i = 0 THEN <<p>>
             ELSE <<SubSeq(p, 1, i - 1)>> \o Segments(SubSeq(p, i + 1, Len(p)))

RECURSIVE Resolve(_, _)
Resolve(segs, acc) ==
    IF segs = <<>> THEN acc
    ELSE LET s == Head(segs)
         IN  IF s = <<>> \/ s = <<".">> THEN Resolve(Tail(segs), acc)
             ELSE IF s = <<".", ".">>
                  THEN Resolve(Tail(segs),
                               IF acc = <<>> THEN acc
                               ELSE SubSeq(acc, 1, Len(acc) - 1))
                  ELSE Resolve(Tail(segs), Append(acc, s))

Put(f, k, v) == [x \in DOMAIN f \cup {k} |-> IF x = k THEN v ELSE f[x]]

Remove(f, k) == [x \in DOMAIN f \ {k} |-> f[x]]

-----------------------------------------------------------------------------
(* Inputs *)

\* file name bytes a BEGIN carries: "r.t", "../..", "/ ", ".upload_"
RawNames ==
    { <<114, 46, 116>>,
      <<46, 46, 47, 46, 46>>,
      <<47, 32>>,
      <<46, 117, 112, 108, 111, 97, 100, 95>> }

\* values written to the control characteristic
ControlPayloads ==
    { <<>>, <<CMD_BEGIN>>, <<CMD_END>>, <<CMD_ABORT>>, <<4>> }
        \cup { <<CMD_BEGIN>> \o n : n \in RawNames }

\* values written to the data characteristic
DataPayloads == { <<>>, <<120>>, <<121>> }

\* the storage call of the handler that fails during an event, if any
IOFaults ==
    {"none", "close", "unlink", "makedirs", "mkstemp", "move", "copy", "write"}

\* names tempfile draws for the temporary file; the first free one is taken
TempNames == << TEMP_PREFIX \o <<"a">>, TEMP_PREFIX \o <<"b">> >>

-----------------------------------------------------------------------------
(* Names and paths *)

\* sanitising with no placeholder for an empty name
Sanitize_NoDefault(raw_filename) == strip(basename(raw_filename))

\* sanitising that strips whitespace but keeps the directory components
Sanitize_KeepDirs(raw_filename) ==
    LET filename == strip(raw_filename)
    IN  IF filename = <<>> THEN UNNAMED_UPLOAD ELSE filename

\* filename = os.path.basename(raw_filename).strip() or 'unnamed_upload'
Sanitize(raw_filename) ==
    LET filename == strip(basename(raw_filename))
    IN  IF filename = <<>> THEN UNNAMED_UPLOAD ELSE filename

\* '{}_{}{}'.format(base, counter, ext)
Variant(base, counter, ext) == base \o <<"_">> \o IntToStr(counter) \o ext

\* the paths the engine resolves most often, resolved once
ResolvedPaths ==
    LET finals == {join(upload_dir, Sanitize(Decode(n))) : n \in RawNames}
        temps == {join(upload_dir, TempNames[i]) : i \in 1..Len(TempNames)}
        variants == {Variant(splitext(p)[1], k, splitext(p)[2]) :
                        p \in finals, k \in 1..4}
    IN  [p \in finals \cup temps \cup variants \cup {upload_dir} |->
            Resolve(Segments(p), <<>>)]

\* the file a path names, as the kernel resolves it (no symbolic links)
NormPath(p) ==
    IF p \in DOMAIN ResolvedPaths THEN ResolvedPaths[p]
    ELSE Resolve(Segments(p), <<>>)

\* the directories on disk: the root and the upload directory
Dirs == {<<>>, NormPath(upload_dir)}

isdir(p) == NormPath(p) \in Dirs

\* os.path.exists
exists(f, p) == LET n == NormPath(p) IN n \in Dirs \/ n \in DOMAIN f

\* a disk with no regular file
EmptyDir == [x \in {} |-> <<>>]

\* contents of the files the upload directory holds at start
OldContent == <<111>>

\* the upload directory the server starts with: it holds "r.t"
InitialFiles ==
    Put(EmptyDir, NormPath(join(upload_dir, <<"r", ".", "t">>)), OldContent)

-----------------------------------------------------------------------------
(* The engine *)

IdleState ==
    [active |-> FALSE, filename |-> None, temp_file |-> None,
     bytes_received |-> 0]

\* tempfile.NamedTemporaryFile(dir=upload_dir, prefix='.upload_'): the path
\* of a file that does not exist yet, None when the model has no name left
mkstemp(f) ==
    LET free == {i \in 1..Len(TempNames) :
                     ~exists(f, join(upload_dir, TempNames[i]))}
    IN  IF free = {} THEN None
        ELSE join(upload_dir, TempNames[CHOOSE i \in free : \A j \in free : i <= j])

\* try: temp_file.close(); os.unlink(temp_file.name)  except OSError: pass
\* close() of a closed file does nothing; a close() that fails still closes
\* the file and skips the unlink
Discard(f, tf, io) ==
    LET closeFails == ~tf.closed /\ io = "close"
        gone == NormPath(tf.name) \notin DOMAIN f
    IN  [tf |-> [tf EXCEPT !.closed = TRUE],
         fs |-> IF closeFails \/ io = "unlink" \/ gone THEN f
                ELSE Remove(f, NormPath(tf.name)),
         fired |-> closeFails \/ (io = "unlink" /\ ~gone)]

\* a collision loop that stops at the first variant whether or not it is free
CollisionLoop_Once(f, base, ext, counter, final_path) ==
    Variant(base, counter, ext)

\* a collision counter that starts one lower
FirstCounter_Zero == 1 - 1

\* counter = 1
FirstCounter == 1

\* while os.path.exists(final_path): final_path = ...; counter += 1
RECURSIVE CollisionLoop(_, _, _, _, _)
CollisionLoop(f, base, ext, counter, final_path) ==
    IF exists(f, final_path)
    THEN CollisionLoop(f, base, ext, counter + 1, Variant(base, counter, ext))
    ELSE final_path

\* the destination is upload_dir/name whether or not it is taken
FinalPath_Direct(f, filename) == join(upload_dir, filename)

\* the destination END moves the temporary file to
FinalPath(f, filename) ==
    LET final_path == join(upload_dir, filename)
        se == splitext(final_path)
    IN  IF exists(f, final_path)
        THEN CollisionLoop(f, se[1], se[2], FirstCounter, final_path)
        ELSE final_path

\* shutil.move(src, dst) can do its work: src is a file and the directory
\* of the destination exists
CanMove(f, src, dst) ==
    LET real_dst == IF isdir(dst) THEN join(dst, basename(src)) ELSE dst
        n == NormPath(real_dst)
    IN  /\ NormPath(src) \in DOMAIN f
        /\ ~(isdir(dst) /\ exists(f, real_dst))
        /\ n # <<>> /\ SubSeq(n, 1, Len(n) - 1) \in Dirs

\* shutil.move(src, dst): a rename, which replaces a file already at dst;
\* into dst when dst is a directory
Move(f, src, dst) ==
    LET real_dst == IF isdir(dst) THEN join(dst, basename(src)) ELSE dst
    IN  Put(Remove(f, NormPath(src)), NormPath(real_dst), f[NormPath(src)])

\* shutil.move(src, dst) whose os.rename raises OSError falls back to
\* copy2 + os.unlink; the copy creates the destination and then raises
\* while it writes, which leaves the destination behind with none of the
\* contents and src where it was
MoveInterrupted(f, src, dst) ==
    LET real_dst == IF isdir(dst) THEN join(dst, basename(src)) ELSE dst
    IN  Put(f, NormPath(real_dst), <<>>)

\* write that puts the new chunk in front of what is already stored
write_Prepend(content, data) == data \o content

\* temp_file.write(data)
write(content, data) == content \o data

-----------------------------------------------------------------------------
(* The write handlers.  io names the storage call that fails during the    *)
(* event; an event is taken with a fault only when its handler makes that  *)
(* call.                                                                   *)

\* phase: "Active" or "Idle", read from transfer_state
Phase == IF transfer_state.active THEN "Active" ELSE "Idle"

\* an event as its caller sees it: the command written, the phase it was
\* written in, what the handler returned or raised, for an END that saved a
\* file the name text its BEGIN carried, and the storage call that failed
\* while the handler ran
Outcome(op, res, name, io) ==
    [op |-> op, phase |-> Phase, res |-> res, name |-> name, io |-> io]

\* a handler that returns or raises before it changes anything
Rejected(op, res, io) ==
    /\ io = "none"
    /\ last' = Outcome(op, res, None, io)
    /\ UNCHANGED <<transfer_state, fs, sent, clean, raw, uploads, faults, written>>

\* the handler makes the call io names, and the call fails
Fault(io, fired) ==
    /\ io = "none" \/ fired
    /\ faults' = IF fired THEN faults + 1 ELSE faults

\* the storage calls each handler makes
BeginCalls == {"close", "unlink", "makedirs", "mkstemp"}
EndCalls == {"close", "move", "copy"}
AbortCalls == {"close", "unlink"}
DataCalls == {"write"}

\* what a behaviour has used of MaxCost
Cost == uploads + written + faults

\* there is room for n more, and for the END of the transfer in progress
Room(n) == Cost + n + 1 <= MaxCost

Calls(io, calls) ==
    io = "none" \/ (io \in calls /\ faults < MaxFaults /\ Room(1))

\* a BEGIN tag with no file name byte that is refused only after the
\* transfer in progress has been discarded
BeginShort_Discards(io) ==
    LET state == transfer_state
        abort == state.active /\ state.temp_file # None
        d == IF abort THEN Discard(fs, state.temp_file[1], io)
             ELSE [tf |-> None, fs |-> fs, fired |-> FALSE]
    IN  /\ Calls(io, BeginCalls)
        /\ Fault(io, d.fired)
        /\ fs' = d.fs
        /\ transfer_state' =
               IF abort THEN [state EXCEPT !.temp_file = <<d.tf>>] ELSE state
        /\ last' = Outcome("begin0", "InvalidArgs", None, io)
        /\ clean' = (clean /\ ~abort)
        /\ UNCHANGED <<sent, raw, uploads, written>>

\* a BEGIN tag with no file name byte raises InvalidArgsException, before
\* the handler looks at the transfer in progress
BeginShort(io) == Rejected("begin0", "InvalidArgs", io)

\* CMD_BEGIN with a file name: discard the transfer in progress, open a new
\* temporary file, record the transfer
BeginTransfer(data, io) ==
    LET state == transfer_state
        raw_filename == Decode(Tail(data))
        filename == Sanitize(raw_filename)
        abort == state.active /\ state.temp_file # None
        d == IF abort THEN Discard(fs, state.temp_file[1], io)
             ELSE [tf |-> None, fs |-> fs, fired |-> FALSE]
        temp_name == mkstemp(d.fs)
        raises == io \in {"makedirs", "mkstemp"}
    IN  /\ uploads < MaxUploads /\ Room(0)
        /\ Calls(io, BeginCalls)
        /\ temp_name # None
        /\ Fault(io, d.fired \/ raises)
        /\ IF raises
           THEN /\ transfer_state' =
                       IF abort
                       THEN [state EXCEPT !.temp_file = <<d.tf>>]
                       ELSE state
                /\ fs' = d.fs
                /\ last' = Outcome("begin", "OSError", None, io)
                /\ clean' = (clean /\ ~abort)
                /\ UNCHANGED <<sent, raw, uploads, written>>
           ELSE /\ transfer_state' =
                       [active |-> TRUE,
                        filename |-> filename,
                        temp_file |-> <<[name |-> temp_name, closed |-> FALSE]>>,
                        bytes_received |-> 0]
                /\ fs' = Put(d.fs, NormPath(temp_name), <<>>)
                /\ last' = Outcome("begin", "ok", None, io)
                /\ sent' = <<>>
                /\ clean' = TRUE
                /\ raw' = raw_filename
                /\ UNCHANGED <<uploads, written>>

\* CMD_BEGIN that is refused while a transfer is in progress
Begin_Exclusive(data, io) ==
    IF Len(data) < 2 THEN BeginShort(io)
    ELSE IF transfer_state.active THEN Rejected("begin", "Failed", io)
    ELSE BeginTransfer(data, io)

\* CMD_BEGIN
Begin(data, io) ==
    IF Len(data) < 2 THEN BeginShort(io) ELSE BeginTransfer(data, io)

\* END with no active transfer that goes on to close a file it does not have
EndIdle_Raises(io) == Rejected("end", "AttributeError", io)

\* END with no active transfer is ignored: the handler returns
EndIdle(io) == Rejected("end", "ok", io)

\* CMD_END
End(io) ==
    LET state == transfer_state
        temp_fd == state.temp_file[1]
        final_path == FinalPath(fs, state.filename)
        closeFails == ~temp_fd.closed /\ io = "close"
        movable == CanMove(fs, temp_fd.name, final_path)
        moveFails == ~closeFails /\ movable /\ io = "move"
        copyFails == /\ ~closeFails /\ movable /\ io = "copy"
                     /\ fs[NormPath(temp_fd.name)] # <<>>
    IN  IF ~state.active THEN EndIdle(io)
        ELSE /\ Calls(io, EndCalls)
             /\ Fault(io, closeFails \/ moveFails \/ copyFails)
             /\ IF closeFails \/ moveFails \/ copyFails \/ ~movable
                THEN /\ transfer_state' =
                            [state EXCEPT
                               !.temp_file = <<[temp_fd EXCEPT !.closed = TRUE]>>]
                     /\ fs' = IF copyFails
                              THEN MoveInterrupted(fs, temp_fd.name, final_path)
                              ELSE fs
                     /\ last' = Outcome("end", "OSError", None, io)
                     /\ clean' = FALSE
                     /\ UNCHANGED <<sent, raw, uploads, written>>
                ELSE /\ fs' = Move(fs, temp_fd.name, final_path)
                     /\ transfer_state' = IdleState
                     /\ last' = Outcome("end", "ok", raw, io)
                     /\ uploads' = uploads + 1
                     /\ sent' = <<>>
                     /\ clean' = TRUE
                     /\ raw' = None
                     /\ UNCHANGED written

\* ABORT that lets a failure of close or unlink reach its caller
Abort_Raises(io) ==
    LET state == transfer_state
        d == IF state.active /\ state.temp_file # None
             THEN Discard(fs, state.temp_file[1], io)
             ELSE [tf |-> None, fs |-> fs, fired |-> FALSE]
    IN  /\ Calls(io, AbortCalls)
        /\ Fault(io, d.fired)
        /\ fs' = d.fs
        /\ IF d.fired
           THEN /\ transfer_state' = [state EXCEPT !.temp_file = <<d.tf>>]
                /\ last' = Outcome("abort", "OSError", None, io)
                /\ clean' = FALSE
                /\ UNCHANGED <<sent, raw, uploads, written>>
           ELSE /\ transfer_state' = IdleState
                /\ last' = Outcome("abort", "ok", None, io)
                /\ sent' = <<>>
                /\ clean' = TRUE
                /\ raw' = None
                /\ UNCHANGED <<uploads, written>>

\* ABORT that closes the temporary file without looking at the state
Abort_Unguarded(io) ==
    LET state == transfer_state
        d == IF state.temp_file # None
             THEN Discard(fs, state.temp_file[1], io)
             ELSE [tf |-> None, fs |-> fs, fired |-> FALSE]
    IN  IF state.temp_file = None
        THEN Rejected("abort", "AttributeError", io)
        ELSE /\ Calls(io, AbortCalls)
             /\ Fault(io, d.fired)
             /\ fs' = d.fs
             /\ transfer_state' = IdleState
             /\ last' = Outcome("abort", "ok", None, io)
             /\ sent' = <<>>
             /\ clean' = TRUE
             /\ raw' = None
             /\ UNCHANGED <<uploads, written>>

\* CMD_ABORT
Abort(io) ==
    LET state == transfer_state
        d == IF state.active /\ state.temp_file # None
             THEN Discard(fs, state.temp_file[1], io)
             ELSE [tf |-> None, fs |-> fs, fired |-> FALSE]
    IN  /\ Calls(io, AbortCalls)
        /\ Fault(io, d.fired)
        /\ fs' = d.fs
        /\ transfer_state' = IdleState
        /\ last' = Outcome("abort", "ok", None, io)
        /\ sent' = <<>>
        /\ clean' = TRUE
        /\ raw' = None
        /\ UNCHANGED <<uploads, written>>

\* an unknown tag that also drops the transfer in progress
UnknownTag_Resets(io) ==
    /\ io = "none"
    /\ transfer_state' = IdleState
    /\ last' = Outcome("unknown", "InvalidArgs", None, io)
    /\ sent' = <<>>
    /\ clean' = TRUE
    /\ raw' = None
    /\ UNCHANGED <<fs, uploads, faults, written>>

\* any other tag raises InvalidArgsException
UnknownTag(io) == Rejected("unknown", "InvalidArgs", io)

\* FileControlCharacteristic.WriteValue
ControlWriteValue(value, io) ==
    LET data == value
    IN  IF Len(data) < 1 THEN Rejected("empty", "InvalidArgs", io)
        ELSE LET cmd == data[1]
             IN  IF cmd = CMD_BEGIN THEN Begin(data, io)
                 ELSE IF cmd = CMD_END THEN End(io)
                 ELSE IF cmd = CMD_ABORT THEN Abort(io)
                 ELSE UnknownTag(io)

\* GattCharacteristic.ReadValue, which FileControlCharacteristic inherits
ControlReadValue(io) == Rejected("read", "NotSupported", io)

\* a byte counter that holds the size of the last chunk only
Received_Last(bytes_received, data) == Len(data)

\* state['bytes_received'] += len(data)
Received(bytes_received, data) == bytes_received + Len(data)

\* a Data write with no active transfer that is ignored, as END is
DataIdle_Ignored(io) == Rejected("data", "ok", io)

\* a Data write with no active transfer raises FailedException
DataIdle(io) == Rejected("data", "Failed", io)

\* FileDataCharacteristic.WriteValue
DataWriteValue(value, io) ==
    LET state == transfer_state
        data == value
        temp_file == state.temp_file[1]
        path == NormPath(temp_file.name)
    IN  IF ~state.active THEN DataIdle(io)
        ELSE IF temp_file.closed THEN Rejected("data", "ValueError", io)
        ELSE /\ Calls(io, DataCalls)
             \* writing no bytes to the buffered file makes no system call
             /\ io = "write" => data # <<>>
             /\ Fault(io, io = "write")
             /\ IF io = "write"
                THEN /\ last' = Outcome("data", "OSError", None, io)
                     /\ clean' = FALSE
                     /\ UNCHANGED <<transfer_state, fs, sent, raw, uploads, written>>
                ELSE /\ written + Len(data) <= MaxBytes /\ Room(Len(data))
                     /\ fs' = Put(fs, path, write(fs[path], data))
                     /\ transfer_state' =
                            [state EXCEPT !.bytes_received = Received(@, data)]
                     /\ last' = Outcome("data", "ok", None, io)
                     /\ sent' = sent \o data
                     /\ written' = written + Len(data)
                     /\ UNCHANGED <<clean, raw, uploads>>

Init ==
    /\ transfer_state = IdleState
    /\ fs = InitialFiles
    /\ last = [op |-> "none", phase |-> "Idle", res |-> "ok", name |-> None,
               io |-> "none"]
    /\ sent = <<>>
    /\ clean = TRUE
    /\ raw = None
    /\ uploads = 0
    /\ faults = 0
    /\ written = 0
    /\ file_buffer = <<>>
    /\ file_name = <<>>
    /\ control_value = "READY"
    /\ event = [op |-> "none", res |-> "ok"]

\* the main loop is running: handlers are called until the server is stopped
Running == last.op # "shutdown"

\* main after mainloop.run() returns: the advertisement and the application
\* are unregistered; the transfer state and the files are not touched
Shutdown == Rejected("shutdown", "ok", "none")

Next ==
    \/ /\ Running
       /\ \E io \in IOFaults, value \in ControlPayloads :
             ControlWriteValue(value, io)
       /\ UNCHANGED ascii
    \/ /\ Running
       /\ \E io \in IOFaults, value \in DataPayloads :
             DataWriteValue(value, io)
       /\ UNCHANGED ascii
    \/ /\ Running
       /\ \E io \in IOFaults : ControlReadValue(io)
       /\ UNCHANGED ascii
    \/ /\ Running
       /\ Shutdown
       /\ UNCHANGED ascii

Spec == Init /\ [][Next]_vars

(***************************************************************************)
(* Vocabulary of the properties.                                           *)

\* the normalised path of the temporary file transfer_state refers to
CurrentTemp ==
    IF transfer_state.temp_file = None THEN {}
    ELSE {NormPath(transfer_state.temp_file[1].name)}

\* the transfer holds a storage handle: an open temporary file on disk
HoldsHandle ==
    /\ transfer_state.temp_file # None
    /\ ~transfer_state.temp_file[1].closed
    /\ CurrentTemp \subseteq DOMAIN fs

\* p is an entry of the upload directory itself
DirectChild(p) ==
    LET d == NormPath(upload_dir)
    IN  Len(p) = Len(d) + 1 /\ SubSeq(p, 1, Len(d)) = d

\* the characters of a text
Chars(s) == {s[i] : i \in 1..Len(s)}

\* the path upload_dir/name
InUploadDir(name) == NormPath(join(upload_dir, name))

\* the files a step creates
Created == DOMAIN fs' \ DOMAIN fs

\* a step that is an END written while a transfer is active
EndOfTransfer == transfer_state.active /\ last'.op = "end"

\* an END that saved the transfer
Published == EndOfTransfer /\ last'.res = "ok"

(***************************************************************************)
(* C1: the engine holds a storage handle exactly when it is Active, in     *)
(* every reachable state, storage failures included.                       *)
C1_HandleIffActive == transfer_state.active <=> HoldsHandle

(***************************************************************************)
(* C2: when no storage call has failed during the transfer, END saves      *)
(* exactly one new file, at upload_dir/name or at a suffixed variant of it *)
(* when that path was taken, and its contents are the Data payloads        *)
(* concatenated in arrival order.                                          *)
C2_RoundTrip ==
    [][(EndOfTransfer /\ clean /\ faults' = faults) =>
          LET plain == join(upload_dir, transfer_state.filename)
              se == splitext(plain)
          IN  /\ last'.res = "ok"
              /\ Cardinality(Created) = 1
              /\ CurrentTemp \cap DOMAIN fs' = {}
              /\ \A p \in Created :
                    /\ fs'[p] = sent
                    /\ \/ p = NormPath(plain)
                       \/ /\ exists(fs, plain)
                          /\ \E k \in 1..(Cardinality(DOMAIN fs) + 1) :
                                p = NormPath(Variant(se[1], k, se[2]))]_vars

\* a transfer of two different chunks was saved with no storage failure
C2_Witness ==
    /\ last.op = "end" /\ last.phase = "Active" /\ last.res = "ok"
    /\ faults = 0
    /\ \E p \in DOMAIN fs : fs[p] = <<120, 121>>

(***************************************************************************)
(* C3: a BEGIN written while a transfer is active closes and deletes the   *)
(* first transfer's temporary file and saves nothing, and the END that     *)
(* follows saves only the bytes sent after the second BEGIN.               *)
C3_RestartDiscards ==
    [][/\ (transfer_state.active /\ last'.op = "begin" /\ last'.res = "ok") =>
            /\ \A p \in CurrentTemp :
                  p \in DOMAIN fs' => (p \in CurrentTemp' /\ fs'[p] = <<>>)
            /\ Created \subseteq CurrentTemp'
       /\ Published => \A p \in Created : fs'[p] = sent]_vars

(***************************************************************************)
(* C4: every file in storage is a direct entry of the upload directory,    *)
(* whatever name text BEGIN carried.                                       *)
C4_NoTraversal == \A p \in DOMAIN fs : DirectChild(p)

\* a transfer whose name text was "../.." was saved, inside the directory
C4_Witness ==
    /\ last.op = "end" /\ last.phase = "Active" /\ last.res = "ok"
    /\ "/" \in Chars(last.name)
    /\ InUploadDir(<<".", ".", "_", "1">>) \in DOMAIN fs

(***************************************************************************)
(* C5: no step replaces or modifies a file that is already stored, other   *)
(* than the temporary file of the transfer in progress: files present      *)
(* before the server started and files saved earlier keep their contents.  *)
C5_NoOverwrite ==
    [][\A p \in DOMAIN fs :
          p \in CurrentTemp \/ (p \in DOMAIN fs' /\ fs'[p] = fs[p])]_vars

\* two transfers named like a file that was already there were saved; the
\* old file and the first saved file are both intact
C5_Witness ==
    /\ last.op = "end" /\ last.phase = "Active" /\ last.res = "ok"
    /\ uploads = 2
    /\ fs[InUploadDir(<<"r", ".", "t">>)] = OldContent
    /\ InUploadDir(<<"r", "_", "1", ".", "t">>) \in DOMAIN fs
    /\ fs[InUploadDir(<<"r", "_", "1", ".", "t">>)] = <<120>>
    /\ InUploadDir(<<"r", "_", "2", ".", "t">>) \in DOMAIN fs

(***************************************************************************)
(* C6: END saves to stem+ext when that path is free, and otherwise to      *)
(* stem_k+ext for the smallest k >= 1 that is free, the suffix standing    *)
(* before the extension.                                                   *)
C6_Destination ==
    [][Published =>
          LET plain == join(upload_dir, transfer_state.filename)
              stem == splitext(plain)[1]
              ext == splitext(plain)[2]
              V(k) == stem \o <<"_">> \o IntToStr(k) \o ext
          IN  IF ~exists(fs, plain)
              THEN Created = {NormPath(plain)}
              ELSE \E k \in 1..(Cardinality(DOMAIN fs) + 1) :
                      /\ Created = {NormPath(V(k))}
                      /\ ~exists(fs, V(k))
                      /\ \A j \in 1..(k - 1) : exists(fs, V(j))]_vars

\* a transfer was saved as r_2.t: r.t and r_1.t were both taken
C6_Witness ==
    /\ last.op = "end" /\ last.phase = "Active" /\ last.res = "ok"
    /\ Chars(last.name) = {"r", ".", "t"}
    /\ InUploadDir(<<"r", "_", "2", ".", "t">>) \in DOMAIN fs

(***************************************************************************)
(* C7: a Data write while Idle is rejected with an error and changes       *)
(* neither the transfer state nor the stored files.                        *)
C7_DataWhileIdle ==
    [][(~transfer_state.active /\ last'.op = "data") =>
          /\ last'.res = "Failed"
          /\ UNCHANGED <<transfer_state, fs>>]_vars

\* a chunk arrived after its transfer had been saved, and was rejected
C7_Witness ==
    /\ last.op = "data" /\ last.phase = "Idle" /\ last.res = "Failed"
    /\ uploads = 1

(***************************************************************************)
(* C8: a storage failure while appending a chunk ends the transfer: the    *)
(* engine is Idle afterwards and holds no temporary file.                  *)
C8_AppendFailureEnds ==
    [][(transfer_state.active /\ last'.op = "data"
          /\ last'.res = "OSError") =>
          /\ ~transfer_state'.active
          /\ CurrentTemp' \cap DOMAIN fs' = {}]_vars

(***************************************************************************)
(* C9: ABORT while Idle raises nothing, leaves the engine Idle and changes *)
(* no stored file.                                                         *)
C9_AbortWhileIdle ==
    [][(~transfer_state.active /\ last'.op = "abort") =>
          /\ last'.res = "ok"
          /\ ~transfer_state'.active
          /\ fs' = fs]_vars

\* an ABORT was written after a transfer had been saved
C9_Witness ==
    /\ last.op = "abort" /\ last.phase = "Idle" /\ last.res = "ok"
    /\ ~transfer_state.active
    /\ uploads = 1

(***************************************************************************)
(* C10: END while Idle raises nothing and changes nothing, so a second END *)
(* after a saved transfer saves no second file and leaves the first as it  *)
(* is.                                                                     *)
C10_EndWhileIdle ==
    [][(~transfer_state.active /\ last'.op = "end") =>
          /\ last'.res = "ok"
          /\ UNCHANGED <<transfer_state, fs, uploads>>]_vars

\* END was written again after a transfer was saved: one saved file
C10_Witness ==
    /\ last.op = "end" /\ last.phase = "Idle" /\ last.res = "ok"
    /\ uploads = 1
    /\ Cardinality(DOMAIN fs) = Cardinality(DOMAIN InitialFiles) + 1
    /\ \E p \in DOMAIN fs : fs[p] = <<120>>

(***************************************************************************)
(* C11: a control write that does not decode (no bytes, an unknown tag, a  *)
(* BEGIN tag with no file name byte) raises InvalidArgs and leaves the     *)
(* transfer state and the stored files as they were, in Idle and in        *)
(* Active: a malformed BEGIN does not discard the transfer in progress.    *)
Malformed == {"empty", "unknown", "begin0"}

C11_MalformedControl ==
    [][last'.op \in Malformed =>
          /\ last'.res = "InvalidArgs"
          /\ UNCHANGED <<transfer_state, fs>>]_vars

\* a BEGIN tag with no name was written while a transfer that had received
\* bytes was in progress, and the transfer is still there
C11_Witness ==
    /\ last.op = "begin0" /\ last.phase = "Active"
    /\ transfer_state.active /\ HoldsHandle
    /\ transfer_state.bytes_received > 0

(***************************************************************************)
(* C12: a file under a name that is not a temporary name appears only in   *)
(* an END that succeeds, and holds the whole transfer from the moment it   *)
(* appears: in every step, a stored file with a final name was there       *)
(* before with the same contents, or the step is a successful END and the  *)
(* file holds every byte the transfer received.                            *)
TempName(p) ==
    LET n == p[Len(p)]
    IN  Len(n) >= Len(TEMP_PREFIX) /\ SubSeq(n, 1, Len(TEMP_PREFIX)) = TEMP_PREFIX

\* p is a path NamedTemporaryFile hands out
EngineTemp(p) ==
    \E i \in 1..Len(TempNames) : p = NormPath(join(upload_dir, TempNames[i]))

C12_PublishedWhole ==
    [][\A p \in DOMAIN fs' :
          \/ EngineTemp(p)
          \/ p \in DOMAIN fs /\ fs'[p] = fs[p]
          \/ Published /\ fs'[p] = sent]_vars

(***************************************************************************)
(* C13: a read of the control characteristic succeeds and returns the      *)
(* status token, which is one of READY, STARTED, SAVED, CANCELLED, ERROR,  *)
(* and is READY when no command has been processed yet.                    *)
StatusTokens == {"READY", "STARTED", "SAVED", "CANCELLED", "ERROR"}

C13_ReadStatus ==
    [][last'.op = "read" =>
          /\ last'.res \in StatusTokens
          /\ last.op = "none" => last'.res = "READY"]_vars

(***************************************************************************)
(* C14: the status token read right after a command reflects the outcome   *)
(* of that command: STARTED after a BEGIN, SAVED after an END that saved,  *)
(* CANCELLED after an ABORT, ERROR after an END or a Data write in Idle    *)
(* and after a storage failure.                                            *)
StatusAfter(e) ==
    IF e.res = "OSError" THEN "ERROR"
    ELSE IF e.op = "begin" THEN "STARTED"
    ELSE IF e.op = "abort" THEN "CANCELLED"
    ELSE IF e.op = "end" /\ e.phase = "Active" THEN "SAVED"
    ELSE "ERROR"

C14_StatusFollows ==
    [][(last'.op = "read" /\ last.op \in {"begin", "end", "abort", "data"}
          /\ ~(last.op = "data" /\ last.phase = "Active" /\ last.res # "OSError")) =>
          last'.res = StatusAfter(last)]_vars

(***************************************************************************)
(* C15: while a transfer is active the stored file name is one path        *)
(* segment: it is not empty, holds no path separator and is not "..".      *)
C15_SingleSegment ==
    transfer_state.active =>
        /\ transfer_state.filename # <<>>
        /\ "/" \notin Chars(transfer_state.filename)
        /\ transfer_state.filename # <<".", ".">>

(***************************************************************************)
(* C16: the upload directory holds at most one temporary file, and none    *)
(* while no transfer is active.                                            *)
TempFiles == {p \in DOMAIN fs : EngineTemp(p)}

C16_OneTempFile ==
    /\ Cardinality(TempFiles) <= 1
    /\ ~transfer_state.active => TempFiles = {}

C18_EndFailureEnds ==
    [][(EndOfTransfer /\ last'.res = "OSError") =>
          /\ transfer_state' = IdleState
          /\ CurrentTemp \cap DOMAIN fs' = {}
          /\ Created = {}]_vars

(***************************************************************************)
(* C19: a BEGIN that cannot create the upload directory or open the        *)
(* temporary file leaves the engine Idle with no temporary file referred   *)
(* to, whether it was written in Idle or in Active.                        *)
C19_BeginFailureEnds ==
    [][(last'.op = "begin" /\ last'.res = "OSError") =>
          /\ ~transfer_state'.active
          /\ transfer_state'.temp_file = None]_vars

(***************************************************************************)
(* C20: an ABORT written while a transfer is active returns normally and   *)
(* leaves the engine Idle with file name, temporary file and byte counter  *)
(* cleared, also when closing or deleting the temporary file fails.        *)
C20_AbortAlwaysEnds ==
    [][(transfer_state.active /\ last'.op = "abort") =>
          /\ last'.res = "ok"
          /\ transfer_state' = IdleState]_vars

\* an ABORT during which close or unlink failed: the engine is Idle
C20_Witness ==
    /\ last.op = "abort" /\ last.phase = "Active"
    /\ last.io \in {"close", "unlink"}
    /\ transfer_state = IdleState

(***************************************************************************)
(* C21: no state wedges the engine.  In every reachable state, states left *)
(* by rejected commands and by storage failures included, a BEGIN during   *)
(* which no storage call fails starts a transfer on a new, empty temporary *)
(* file; the Data writes of that transfer are accepted while no storage    *)
(* call fails; and its END then saves one file that holds exactly the      *)
(* bytes of those Data writes and leaves the engine Idle.                  *)
C21_NeverWedged ==
    [][/\ (last'.op = "begin" /\ faults' = faults) =>
              /\ last'.res = "ok"
              /\ transfer_state'.active /\ HoldsHandle' /\ clean'
              /\ sent' = <<>>
              /\ \A p \in CurrentTemp' : fs'[p] = <<>>
       /\ (transfer_state.active /\ clean /\ last'.op = "data"
              /\ faults' = faults) =>
              /\ last'.res = "ok"
              /\ transfer_state'.active /\ HoldsHandle' /\ clean'
              /\ \A p \in CurrentTemp' : fs'[p] = sent'
       /\ (EndOfTransfer /\ clean /\ faults' = faults) =>
              /\ last'.res = "ok"
              /\ transfer_state' = IdleState
              /\ Cardinality(Created) = 1
              /\ \A p \in Created : fs'[p] = sent]_vars

\* a transfer was saved after an earlier storage failure had left a
\* temporary file behind
C21_Witness ==
    /\ last.op = "end" /\ last.phase = "Active" /\ last.res = "ok"
    /\ last.io = "none"
    /\ faults = 1
    /\ TempFiles # {}
    /\ \E p \in DOMAIN fs : ~EngineTemp(p) /\ fs[p] = <<120>>

(***************************************************************************)
(* C22: an active transfer ends only in an END or an ABORT.  A Data write  *)
(* that is accepted and a control write that does not decode leave the     *)
(* engine active with the same file name and the same temporary file; a    *)
(* BEGIN that starts a transfer leaves it active on a newly created, empty *)
(* temporary file; no other step exists.                                   *)
C22_ActiveUntilEndOrAbort ==
    [][transfer_state.active =>
          /\ ~transfer_state'.active => last'.op \in {"end", "abort"}
          /\ ((last'.op = "data" /\ last'.res = "ok")
                \/ last'.op \in Malformed) =>
                /\ transfer_state'.active
                /\ transfer_state'.filename = transfer_state.filename
                /\ transfer_state'.temp_file = transfer_state.temp_file
          /\ (last'.op = "begin" /\ last'.res = "ok") =>
                /\ transfer_state'.active /\ HoldsHandle'
                /\ \A p \in CurrentTemp' : fs'[p] = <<>>]_vars

\* an unknown tag was written during a transfer that had received a byte,
\* and the transfer is still in progress
C22_Witness ==
    /\ last.op = "unknown" /\ last.phase = "Active"
    /\ transfer_state.active /\ HoldsHandle
    /\ transfer_state.bytes_received = 1

(***************************************************************************)
(* C23: while no storage call has failed, every END that saves creates one *)
(* path that was not there, holding the bytes of its own transfer, and     *)
(* leaves every file saved before as it was; so after N such transfers,    *)
(* whatever their names, the upload directory holds N files more than at   *)
(* the start.                                                              *)
Saved == DOMAIN fs \ CurrentTemp

C23_DistinctPaths ==
    [][faults' = 0 =>
          /\ Cardinality(Saved') = Cardinality(DOMAIN InitialFiles) + uploads'
          /\ Published =>
                /\ uploads' = uploads + 1
                /\ \E p \in Saved' \ Saved : fs'[p] = sent
                /\ \A q \in Saved : q \in Saved' /\ fs'[q] = fs[q]]_vars

\* two transfers with the same name and different bytes were saved next to
\* the file that already had that name
C23_Witness ==
    /\ last.op = "end" /\ last.res = "ok" /\ faults = 0
    /\ uploads = 2
    /\ Saved = {InUploadDir(<<"r", ".", "t">>),
                InUploadDir(<<"r", "_", "1", ".", "t">>),
                InUploadDir(<<"r", "_", "2", ".", "t">>)}
    /\ fs[InUploadDir(<<"r", ".", "t">>)] = OldContent
    /\ fs[InUploadDir(<<"r", "_", "1", ".", "t">>)] = <<120>>
    /\ fs[InUploadDir(<<"r", "_", "2", ".", "t">>)] = <<121>>

(***************************************************************************)
(* C24: a BEGIN whose name text is empty once its directory part and the   *)
(* surrounding whitespace are removed is accepted when no storage call     *)
(* fails, and starts a transfer whose file name is unnamed_upload.         *)
EmptyAfterTrim(text) == strip(basename(text)) = <<>>

C24_Placeholder ==
    [][/\ (last'.op = "begin" /\ faults' = faults) => last'.res = "ok"
       /\ (last'.op = "begin" /\ last'.res = "ok" /\ EmptyAfterTrim(raw')) =>
              /\ transfer_state'.active
              /\ transfer_state'.filename =
                    <<"u","n","n","a","m","e","d","_","u","p","l","o","a","d">>]_vars

\* a BEGIN that carried "/ " started a transfer named unnamed_upload
C24_Witness ==
    /\ last.op = "begin" /\ last.res = "ok"
    /\ raw = <<"/", " ">>
    /\ transfer_state.active
    /\ transfer_state.filename = UNNAMED_UPLOAD

(***************************************************************************)
(* C25: a stored file whose name starts with .upload_ is the temporary     *)
(* file of the transfer in progress; no END saves an upload under such a   *)
(* name.                                                                   *)
C25_TempNamesApart ==
    \A p \in DOMAIN fs :
        TempName(p) => transfer_state.active /\ p \in CurrentTemp

(***************************************************************************)
(* C26: when the server is stopped while a transfer is active, the         *)
(* temporary file of the transfer is deleted, and no temporary file is     *)
(* left in the upload directory.                                           *)
C26_ShutdownCleans ==
    [][(transfer_state.active /\ last'.op = "shutdown") =>
          /\ CurrentTemp \cap DOMAIN fs' = {}
          /\ TempFiles' = {}]_vars

(***************************************************************************)
(* C27: a Data write of no bytes while a transfer is active returns        *)
(* normally and changes neither the transfer state (byte counter, file     *)
(* name, active flag, temporary file) nor any stored file.                 *)
(***************************************************************************)
ZeroLengthData == \E io \in IOFaults : DataWriteValue(<<>>, io)

C27_ZeroLengthData ==
    [][(transfer_state.active /\ ZeroLengthData) =>
          /\ last'.res = "ok"
          /\ UNCHANGED <<transfer_state, fs>>]_vars

-----------------------------------------------------------------------------
(* The ASCII-command server (src/bluetooth_server.py) *)

\* the working directory of the server process
cwd == <<"/", "w">>

\* upload_directory = "./uploads"
upload_directory == <<".", "/", "u">>

\* the character an ASCII byte decodes to
Utf8Char(b) ==
    CASE b = 65 -> "A"
      [] b = 67 -> "C"
      [] b = 68 -> "D"
      [] b = 69 -> "E"
      [] b = 76 -> "L"
      [] b = 78 -> "N"
      [] b = 82 -> "R"
      [] b = 83 -> "S"
      [] b = 84 -> "T"
      [] OTHER -> DecodeByte(b)

\* bytes.decode('utf-8') returns: on the bytes the model sends, when every
\* byte is ASCII (a byte that starts no valid sequence makes it raise
\* UnicodeDecodeError)
Decodable(bytes) == \A i \in 1..Len(bytes) : bytes[i] < 128

decode(bytes) == [i \in 1..Len(bytes) |-> Utf8Char(bytes[i])]

START == <<"S", "T", "A", "R", "T">>
END == <<"E", "N", "D">>
CANCEL == <<"C", "A", "N", "C", "E", "L">>

\* str.startswith
startswith(s, prefix) ==
    Len(prefix) <= Len(s) /\ SubSeq(s, 1, Len(prefix)) = prefix

\* the file a path names for the server process, as the kernel resolves it
\* from the working directory (no symbolic links)
Target(p) == Resolve(Segments(join(cwd, p)), <<>>)

\* the text of an absolute path with the given segments
RECURSIVE PathText(_)
PathText(segs) ==
    IF segs = <<>> THEN <<>>
    ELSE <<"/">> \o Head(segs) \o PathText(Tail(segs))

\* os.path.abspath: normpath(join(os.getcwd(), p))
abspath(p) ==
    LET segs == Target(p)
    IN  IF segs = <<>> THEN <<"/">> ELSE PathText(segs)

\* the directories on the server's disk: the root, the working directory
\* and the upload directory
ServerDirs == {<<>>, Target(<<".">>), Target(upload_directory)}

\* the directory that holds a file
parent(target) == SubSeq(target, 1, Len(target) - 1)

\* the upload directory the server starts with: it holds "r.t"
ServerFiles ==
    Put(EmptyDir, Target(join(upload_directory, <<"r", ".", "t">>)), OldContent)

\* the values the model writes to the name characteristic:
\* '', 'r.t', '../up', '../t' and a byte that is not UTF-8
NamePayloads ==
    { <<>>, <<114, 46, 116>>, <<46, 46, 47, 117, 112>>, <<46, 46, 47, 116>>,
      <<255>> }

\* the values the model writes to the control characteristic:
\* 'START', 'END', 'CANCEL', 'END ' and a byte that is not UTF-8
CommandPayloads ==
    { <<83, 84, 65, 82, 84>>, <<69, 78, 68>>, <<67, 65, 78, 67, 69, 76>>,
      <<69, 78, 68, 32>>, <<255>> }

\* the storage calls of END that may fail
ServerFaults == {"none", "makedirs", "open", "write"}

\* a write to the server as its caller sees it
Answer(op, res) == [op |-> op, res |-> res]

\* bytearray.extend
extend_Replace(buffer, data) == data

extend(buffer, data) == buffer \o data

\* FileDataCharacteristic.WriteValue
FileDataWriteValue(value) ==
    LET data == value
    IN  /\ written + Len(data) <= MaxBytes /\ Cost + Len(data) <= MaxCost
        /\ file_buffer' = extend(file_buffer, data)
        /\ sent' = sent \o data
        /\ written' = written + Len(data)
        /\ event' = Answer("data", "ok")
        /\ UNCHANGED <<file_name, control_value, fs, uploads, faults>>

\* FileNameCharacteristic.WriteValue
FileNameWriteValue(value) ==
    IF ~Decodable(value)
    THEN /\ event' = Answer("name", "UnicodeDecodeError")
         /\ UNCHANGED <<file_buffer, file_name, control_value, fs, sent,
                        uploads, faults, written>>
    ELSE /\ file_name' = decode(value)
         /\ event' = Answer("name", "ok")
         /\ UNCHANGED <<file_buffer, control_value, fs, sent, uploads, faults,
                        written>>

\* FileControlCharacteristic.ReadValue
FileControlReadValue ==
    /\ event' = Answer("read", control_value)
    /\ UNCHANGED <<file_buffer, file_name, control_value, fs, sent, uploads,
                   faults, written>>

\* command == 'START'
Start ==
    /\ file_buffer' = <<>>
    /\ control_value' = "STARTED"
    /\ sent' = <<>>
    /\ event' = Answer("START", "ok")
    /\ UNCHANGED <<file_name, fs, uploads, faults>>

\* command == 'CANCEL'
Cancel ==
    /\ file_buffer' = <<>>
    /\ control_value' = "CANCELLED"
    /\ sent' = <<>>
    /\ event' = Answer("CANCEL", "ok")
    /\ UNCHANGED <<file_name, fs, uploads, faults>>

\* an END that sets the status to ERROR and returns
EndError(files) ==
    /\ control_value' = "ERROR"
    /\ fs' = files
    /\ event' = Answer("END", "ok")
    /\ UNCHANGED <<file_buffer, file_name, sent, uploads>>

\* the traversal check of END
InsideUploads(file_path) ==
    startswith(abspath(file_path), abspath(upload_directory))

\* an END without a file name that empties the buffer
EndNoName_Clears(io) ==
    /\ io = "none"
    /\ control_value' = "ERROR"
    /\ file_buffer' = <<>>
    /\ event' = Answer("END", "ok")
    /\ UNCHANGED <<file_name, fs, sent, uploads, faults>>

\* command == 'END' and not file_name
EndNoName(io) ==
    /\ io = "none"
    /\ EndError(fs)
    /\ UNCHANGED faults

\* command == 'END'
SaveFile(io) ==
    IF file_name = <<>>
    THEN EndNoName(io)
    ELSE IF io = "makedirs"
    THEN /\ faults' = faults + 1
         /\ event' = Answer("END", "OSError")
         /\ UNCHANGED <<file_buffer, file_name, control_value, fs, sent,
                        uploads>>
    ELSE LET file_path == join(upload_directory, file_name)
             target == Target(file_path)
             refused == target \in ServerDirs \/ parent(target) \notin ServerDirs
         IN  IF ~InsideUploads(file_path)
             THEN /\ io = "none"
                  /\ EndError(fs)
                  /\ UNCHANGED faults
             ELSE IF refused \/ io = "open"
             THEN /\ refused => io = "none"
                  /\ EndError(fs)
                  /\ faults' = IF io = "open" THEN faults + 1 ELSE faults
             ELSE IF io = "write"
             THEN \* open() has emptied the file; a part of the buffer may
                  \* have reached it
                  /\ file_buffer # <<>>
                  /\ \E n \in 0..(Len(file_buffer) - 1) :
                        EndError(Put(fs, target, SubSeq(file_buffer, 1, n)))
                  /\ faults' = faults + 1
             ELSE /\ uploads < MaxUploads /\ Cost + 1 <= MaxCost
                  /\ fs' = Put(fs, target, file_buffer)
                  /\ control_value' = "SAVED"
                  /\ file_buffer' = <<>>
                  /\ sent' = <<>>
                  /\ uploads' = uploads + 1
                  /\ event' = Answer("END", "ok")
                  /\ UNCHANGED <<file_name, faults>>

\* a command that is none of START, END, CANCEL and is answered with the
\* status ERROR
UnknownCommand_Error ==
    /\ control_value' = "ERROR"
    /\ event' = Answer("unknown", "ok")
    /\ UNCHANGED <<file_buffer, file_name, fs, sent, uploads, faults>>

\* a command that is none of START, END, CANCEL
UnknownCommand ==
    /\ event' = Answer("unknown", "ok")
    /\ UNCHANGED <<file_buffer, file_name, control_value, fs, sent, uploads,
                   faults>>

\* FileControlCharacteristic.WriteValue
FileControlWriteValue(value, io) ==
    /\ io # "none" => (faults < MaxFaults /\ Cost + 1 <= MaxCost)
    /\ UNCHANGED written
    /\ IF ~Decodable(value)
       THEN /\ io = "none"
            /\ event' = Answer("control", "UnicodeDecodeError")
            /\ UNCHANGED <<file_buffer, file_name, control_value, fs, sent,
                           uploads, faults>>
       ELSE LET command == decode(value)
            IN  IF command = START THEN io = "none" /\ Start
                ELSE IF command = END THEN SaveFile(io)
                ELSE IF command = CANCEL THEN io = "none" /\ Cancel
                ELSE io = "none" /\ UnknownCommand

ServerInit ==
    /\ file_buffer = <<>>
    /\ file_name = <<>>
    /\ control_value = "READY"
    /\ event = Answer("none", "ok")
    /\ fs = ServerFiles
    /\ sent = <<>>
    /\ uploads = 0
    /\ faults = 0
    /\ transfer_state = IdleState
    /\ last = [op |-> "none", phase |-> "Idle", res |-> "ok", name |-> None,
               io |-> "none"]
    /\ clean = TRUE
    /\ raw = None
    /\ written = 0

ServerNext ==
    \/ /\ \E value \in DataPayloads : FileDataWriteValue(value)
       /\ UNCHANGED engine
    \/ /\ \E value \in NamePayloads : FileNameWriteValue(value)
       /\ UNCHANGED engine
    \/ /\ \E io \in ServerFaults, value \in CommandPayloads :
             FileControlWriteValue(value, io)
       /\ UNCHANGED engine
    \/ /\ FileControlReadValue
       /\ UNCHANGED engine

ServerSpec == ServerInit /\ [][ServerNext]_vars

-----------------------------------------------------------------------------
(* Properties of the ASCII-command server *)

\* the path names a file below the upload directory
BelowUploads(p) ==
    LET dir == Target(upload_directory)
        target == Target(p)
    IN  Len(target) > Len(dir) /\ SubSeq(target, 1, Len(dir)) = dir

\* the joined path of a file name resolves outside the upload directory
Outside(name) ==
    LET p == join(upload_directory, name)
    IN  ~BelowUploads(p) /\ Target(p) # Target(upload_directory)

(***************************************************************************)
(* C28: an END of the ASCII-command server whose file name resolves        *)
(* outside the upload directory, a sibling directory or file whose path    *)
(* begins with the upload directory's path included, sets the status to    *)
(* ERROR and creates or modifies no file.                                  *)
(***************************************************************************)
C28_EndStaysInside ==
    [][(event'.op = "END" /\ event'.res = "ok" /\ Outside(file_name)) =>
          /\ control_value' = "ERROR"
          /\ fs' = fs]_vars

\* the files in the upload directory
Uploaded(f) == {p \in DOMAIN f : parent(p) = Target(upload_directory)}

(***************************************************************************)
(* C29: an END of the ASCII-command server does not change the contents of *)
(* a file the upload directory already holds, a file saved by an earlier   *)
(* END included.                                                           *)
(***************************************************************************)
C29_EndKeepsFiles ==
    [][event'.op = "END" =>
          \A p \in Uploaded(fs) : p \in DOMAIN fs' /\ fs'[p] = fs[p]]_vars

\* the END just handled saved a file
EndSaved == event = Answer("END", "ok") /\ control_value = "SAVED"

\* the file END writes for the current file name
SavedPath == Target(join(upload_directory, file_name))

(***************************************************************************)
(* C30: the buffer of the ASCII-command server always holds the data       *)
(* writes received since the server started or the buffer was last emptied *)
(* by START, CANCEL or an END that saved, in arrival order; an END that    *)
(* saves writes exactly these bytes; a data write is accepted in every     *)
(* state and changes nothing else; an END that does not save leaves the    *)
(* buffer unchanged.                                                       *)
(***************************************************************************)
C30_SavedIsReceived ==
    /\ [](file_buffer = sent)
    /\ [][/\ (event'.op = "END" /\ EndSaved') =>
                /\ SavedPath \in DOMAIN fs'
                /\ fs'[SavedPath] = sent
                /\ file_buffer' = <<>>
          /\ (event'.op = "END" /\ ~EndSaved') => file_buffer' = file_buffer
          /\ event'.op = "data" =>
                /\ event'.res = "ok"
                /\ UNCHANGED <<file_name, control_value, fs>>]_vars

\* two data writes, 'x' then 'y', have been saved as "xy"
C30_Witness ==
    /\ EndSaved
    /\ SavedPath \in DOMAIN fs
    /\ fs[SavedPath] = <<120, 121>>
    /\ written = 2

(***************************************************************************)
(* C31: an END of the ASCII-command server received while the file name is *)
(* empty (none has been set) returns with the status ERROR, creates or     *)
(* changes no file and leaves the buffered data unchanged.                 *)
(***************************************************************************)
C31_EndWithoutName ==
    [][(event'.op = "END" /\ file_name = <<>>) =>
          /\ event'.res = "ok"
          /\ control_value' = "ERROR"
          /\ fs' = fs
          /\ file_buffer' = file_buffer]_vars

\* an END without a file name has been answered while data was buffered
C31_Witness ==
    /\ event = Answer("END", "ok")
    /\ file_name = <<>>
    /\ control_value = "ERROR"
    /\ file_buffer = <<120, 121>>

\* the control payloads whose text is none of the three commands, and a step
\* that is a control write of one of them
UnknownPayloads ==
    {value \in CommandPayloads :
        Decodable(value) /\ decode(value) \notin {START, END, CANCEL}}

UnknownWrite ==
    \E io \in ServerFaults, value \in UnknownPayloads :
        FileControlWriteValue(value, io)

(***************************************************************************)
(* C32: a control write of the ASCII-command server whose text is not      *)
(* exactly START, END or CANCEL returns normally and leaves the buffer,    *)
(* the file name, the status and the files unchanged.                      *)
(***************************************************************************)
C32_UnknownCommandIgnored ==
    [][UnknownWrite =>
          /\ event'.res = "ok"
          /\ UNCHANGED <<file_buffer, file_name, control_value, fs>>]_vars

\* 'END ' has been written after a save, with a name set and data buffered
C32_Witness ==
    /\ event = Answer("unknown", "ok")
    /\ control_value = "SAVED"
    /\ file_name = <<"r", ".", "t">>
    /\ file_buffer = <<121>>

====
